---------------------------- MODULE Spec2Model ----------------------------
(***************************************************************************)
(* State-machine model of src/cseApi.js: the CSEApi data client (network   *)
(* call, four cached getters, 30 s lazy-expiry cache) and the CSEUI view   *)
(* controller (per-region update operations, initialize, auto-refresh).    *)
(*                                                                         *)
(* The browser is one event loop.  Every action below is one macrotask     *)
(* together with the microtasks it triggers: a script calling a getter,    *)
(* the arrival of one network response (which resumes the awaiting getter  *)
(* and, through it, the awaiting update operation), a timer callback, or   *)
(* the passage of time between tasks.                                      *)
(***************************************************************************)
EXTENDS Integers, Sequences, FiniteSets, TLC

VARIABLES
  now,        \* Date.now(), in milliseconds since page load
  cache,      \* CSEApi.cache: a Map from key to {data, timestamp}
  calls,      \* getter calls suspended in `await this.makeApiCall(...)`
  ncalls,     \* number of getter calls made so far
  last,       \* history: the most recent getter event (lookup or return)
  lastSet,    \* history: per key, the arguments of the latest setCachedData
  storedBy,   \* history: per key, the pass whose request stored last, and before
  elements,   \* the ids document.getElementById finds on the page
  dom,        \* per element: its content and its className
  passes,     \* the initialize() calls so far: promise state, each update's end
  timer,      \* the setInterval timer of startAutoRefresh
  faults,     \* responses so far that were not the documented payload
  rendered    \* history: the update operation run on its own, and its inputs

apiVars == <<cache, calls, ncalls, last, lastSet, storedBy>>
uiVars == <<elements, dom, passes, timer, faults, rendered>>
vars == <<now, cache, calls, ncalls, last, lastSet, storedBy, elements, dom, passes, timer, faults,
         rendered>>

---------------------------------------------------------------------------
(* Program constants *)

cacheTimeout == 30000

\* The period the page passes to startAutoRefresh.
RefreshInterval == 60000

EndpointKeys == {"marketSummary", "topGainers", "topLosers", "mostActive"}

\* The endpoint each getter passes to makeApiCall.
Endpoint(key) ==
  CASE key = "marketSummary" -> "/marketSummery"
    [] key = "topGainers"    -> "/topGainers"
    [] key = "topLosers"     -> "/topLosers"
    [] key = "mostActive"    -> "/mostActive"

(* Bounds of the model *)

MaxNow == 30001        \* the clock is not advanced past this instant
MaxCalls == 3          \* getter calls made by scripts over a run
MaxPageNow == 60000    \* the clock of a page is not advanced past this instant
MaxFaults == 1         \* responses of a page run that are failures or malformed
MaxRows == 6           \* rows of a gainers / losers / most-active payload
MaxRenders == 2        \* times one update operation is run in succession
MaxLate == 1           \* requests still unanswered when the clock of a page advances

\* Amounts by which the clock advances between two tasks: they land a lookup
\* just inside, exactly on and just past the cache timeout.
TimeSteps == {cacheTimeout - 1, cacheTimeout, cacheTimeout + 1}

\* On a page the clock is advanced a refresh period at a time: a response
\* arrives in the instant of the pass that asked for it or in that of a later
\* pass (before or after the timer's callback runs).
PageSteps == {RefreshInterval}

---------------------------------------------------------------------------
(* JSON values, as response.json() yields them.  One record shape for all: *)
(* type, num (the number, the boolean as 0/1, the length of a string),     *)
(* items (the rows of an array), fields (the properties of an object that  *)
(* the module reads).  A property value is a scalar: type and num.         *)

Scalar(type, num) == [type |-> type, num |-> num]

Undefined == Scalar("undefined", 0)
Num(n) == Scalar("number", n)
Str(len) == Scalar("string", len)

Fields(aspi, aspiChange, turnover, marketCap) ==
  [ASPI |-> aspi, ASPIChange |-> aspiChange, turnover |-> turnover,
   marketCap |-> marketCap]

NoFields == Fields(Undefined, Undefined, Undefined, Undefined)

Json(type, num, items, fields) ==
  [type |-> type, num |-> num, items |-> items, fields |-> fields]

JNull == Json("null", 0, <<>>, NoFields)
JZero == Json("number", 0, <<>>, NoFields)
JFalse == Json("boolean", 0, <<>>, NoFields)
JEmptyString == Json("string", 0, <<>>, NoFields)

\* A row of a gainers / losers / most-active response.  A text property is ""
\* and a numeric property 0 when the row lacks it: `||` treats the two alike.
Row(symbol, name, price, lastPrice, change, percentageChange) ==
  [symbol |-> symbol, name |-> name, price |-> price, lastPrice |-> lastPrice,
   change |-> change, percentageChange |-> percentageChange]

Array(items) == Json("array", 0, items, NoFields)
Object(fields) == Json("object", 0, <<>>, fields)

RowsA == Array(<<Row("JKH", "", 100, 0, 5, 0)>>)
RowsB == Array(<<Row("", "COMB", 0, 50, -3, 0), Row("", "", 70, 0, 0, 2)>>)

\* A market summary as the service documents it, and one whose ASPI is text.
SummaryA == Object(Fields(Num(12000), Num(-3), Num(1500), Num(1000000000)))
SummaryText == Object(Fields(Str(5), Undefined, Num(1500), Undefined))

\* The market summary a little later.
SummaryB == Object(Fields(Num(12100), Num(2), Num(1600), Num(2000000)))

\* A response that is an object where a sequence of rows is expected.
NotRows == Object(NoFields)

\* JavaScript truthiness of a JSON value: `if (data)`, `if (cached)`, `!data`.
Truthy(j) ==
  CASE j.type = "null"    -> FALSE
    [] j.type = "boolean" -> j.num = 1
    [] j.type = "number"  -> j.num # 0
    [] j.type = "string"  -> j.num # 0
    [] j.type = "undefined" -> FALSE
    [] OTHER              -> TRUE

---------------------------------------------------------------------------
(* The outcome of one fetch(), as makeApiCall sees it. *)

NetworkError == [kind |-> "networkError", body |-> JNull]   \* fetch() rejects
HttpError == [kind |-> "httpError", body |-> JNull]         \* !response.ok
InvalidJson == [kind |-> "invalidJson", body |-> JNull]     \* response.json() rejects
Ok(body) == [kind |-> "ok", body |-> body]

ApiBodies == {JNull, JZero, RowsA, RowsB}
ApiOutcomes == {NetworkError, HttpError, InvalidJson} \cup {Ok(b) : b \in ApiBodies}

\* A plausible slip: the `if (!response.ok) throw` line left out, so that the
\* body of an error response is parsed and returned as data.
makeApiCallNoStatusCheck(outcome) ==
  IF outcome.kind = "ok" THEN outcome.body
  ELSE IF outcome.kind = "httpError" THEN Json("object", 0, <<>>, NoFields)
  ELSE JNull

\* makeApiCall: the parsed body on success; every failure is caught, logged
\* and turned into null.
makeApiCall(outcome) ==
  IF outcome.kind = "ok" THEN outcome.body ELSE JNull

---------------------------------------------------------------------------
(* Cache management *)

Entry(data, timestamp) == [data |-> data, timestamp |-> timestamp]

\* A plausible slip: the age test left out, an entry served however old.
getCachedDataNoExpiry(c, key, t) ==
  IF key \in DOMAIN c THEN c[key].data ELSE JNull

\* A plausible slip: the timeout read as seconds where Date.now() counts
\* milliseconds.
getCachedDataInSeconds(c, key, t) ==
  IF key \in DOMAIN c /\ t - c[key].timestamp < cacheTimeout \div 1000
  THEN c[key].data
  ELSE JNull

\* A plausible slip: `<=` for `<`, an entry still served at exactly the timeout.
getCachedDataInclusive(c, key, t) ==
  IF key \in DOMAIN c /\ t - c[key].timestamp <= cacheTimeout
  THEN c[key].data
  ELSE JNull

getCachedData(c, key, t) ==
  IF key \in DOMAIN c /\ t - c[key].timestamp < cacheTimeout
  THEN c[key].data
  ELSE JNull

\* A plausible slip: the entry filed under the endpoint path, not the cache key.
setCachedDataByEndpoint(c, key, data, t) ==
  [k \in DOMAIN c \cup {Endpoint(key)} |->
     IF k = Endpoint(key) THEN Entry(data, t) ELSE c[k]]

\* A plausible slip: the map is rebuilt around the new entry, dropping the others.
setCachedDataOnly(c, key, data, t) ==
  [k \in {key} |-> Entry(data, t)]

setCachedData(c, key, data, t) ==
  [k \in DOMAIN c \cup {key} |-> IF k = key THEN Entry(data, t) ELSE c[k]]

\* A plausible slip: the `if (data)` guard left out.
StoreFetchedAlways(c, key, data, t) == setCachedData(c, key, data, t)

\* A plausible slip: the cache is looked up again after the await, and a
\* payload another request stored in the meantime is kept.
StoreFetchedIfMissing(c, key, data, t) ==
  IF Truthy(data) /\ ~Truthy(getCachedData(c, key, t))
  THEN setCachedData(c, key, data, t)
  ELSE c

\* A plausible slip: the guard inverted, so that a fetched payload is dropped.
StoreFetchedNever(c, key, data, t) == c

\* The getter after `await this.makeApiCall(...)`: `if (data) setCachedData`.
StoreFetched(c, key, data, t) ==
  IF Truthy(data) THEN setCachedData(c, key, data, t) ELSE c

\* A plausible slip: a hit renews the entry's timestamp (sliding expiry).
CacheAfterHitTouch(c, key, t) == setCachedData(c, key, c[key].data, t)

\* The getter on a hit: `if (cached) return cached;` leaves the map alone.
CacheAfterHit(c, key, t) == c

\* A plausible slip: a lookup that finds its entry expired deletes it.
CacheAfterMissEvict(c, key, t) == [k \in DOMAIN c \ {key} |-> c[k]]

\* The map after a lookup that returned null: getCachedData only reads, so an
\* expired entry stays where it is.
CacheAfterMiss(c, key, t) == c

---------------------------------------------------------------------------
(* Formatting helpers.  A formatted string is a record: its kind, the      *)
(* number it shows (in hundredths for a two-fraction-digit decimal) and    *)
(* the text around it.                                                     *)

Text(kind, num, label) == [kind |-> kind, num |-> num, label |-> label]

\* parseFloat of a property value; text in this model is never numeric.
parseFloat(x) ==
  IF x.type = "number" THEN [nan |-> FALSE, n |-> x.num] ELSE [nan |-> TRUE, n |-> 0]

\* a / b rounded to the nearest integer, halves away from zero (a >= 0, b > 0).
RoundDiv(a, b) == (2 * a + b) \div (2 * b)

\* Number.prototype.toFixed(2) of a value given in hundredths.
toFixed2(nan, hundredths) ==
  IF nan THEN Text("NaN", 0, "") ELSE Text("fixed2", hundredths, "")

formatPercentageChange(change) ==
  LET num == parseFloat(change)
  IN [value |-> toFixed2(num.nan, num.n * 100),
      isPositive |-> ~num.nan /\ num.n >= 0,
      color |-> IF ~num.nan /\ num.n >= 0 THEN "positive" ELSE "negative"]

formatCurrency(value) == Text("currency", value, "LKR")

formatLargeNumber(value) ==
  LET num == parseFloat(value)
  IN IF num.nan THEN toFixed2(TRUE, 0)
     ELSE IF num.n >= 1000000000
       THEN [toFixed2(FALSE, RoundDiv(num.n, 10000000)) EXCEPT !.label = "B"]
     ELSE IF num.n >= 1000000
       THEN [toFixed2(FALSE, RoundDiv(num.n, 10000)) EXCEPT !.label = "M"]
     ELSE IF num.n >= 1000
       THEN [toFixed2(FALSE, RoundDiv(num.n, 10)) EXCEPT !.label = "K"]
     ELSE toFixed2(FALSE, num.n * 100)

\* a || b for row properties: 0 and "" are the falsy values.
OrNum(a, b) == IF a # 0 THEN a ELSE b
OrStr(a, b) == IF a # "" THEN a ELSE b

---------------------------------------------------------------------------
(* The page: the elements document.getElementById can find, and for each   *)
(* its content (textContent / innerHTML) and its className.                *)

DataIds ==
  {"aspi-index", "aspi-change", "top-gainers", "top-losers", "most-active",
   "market-aspi", "market-turnover", "market-cap", "market-change",
   "ticker-content"}

\* The ids the update operations pass to showError.
ErrorIds == {"ASPI", "gainers", "losers", "active", "summary"}

\* The pages a run may be on: every id present; the data placeholders only;
\* a home page with the ASPI widget and the ticker.
Pages ==
  {DataIds \cup ErrorIds, DataIds, {"aspi-index", "aspi-change", "ticker-content"}}

Content(kind, label, num, rows) ==
  [kind |-> kind, label |-> label, num |-> num, rows |-> rows]

Initial == Content("initial", "", 0, <<>>)
TextContent(t) == Content(t.kind, t.label, t.num, <<>>)

ErrorFragment(message) == Content("error", message, 0, <<>>)

toLowerCase(title) ==
  CASE title = "Gainers"     -> "gainers"
    [] title = "Losers"      -> "losers"
    [] title = "Most Active" -> "most active"

Min(a, b) == IF a <= b THEN a ELSE b

slice(items, n) == SubSeq(items, 1, Min(n, Len(items)))

TableRow(stock) ==
  LET change == formatPercentageChange(
                  Scalar("number", OrNum(stock.change, OrNum(stock.percentageChange, 0))))
  IN [symbol |-> OrStr(stock.symbol, OrStr(stock.name, "N/A")),
      price |-> formatCurrency(OrNum(stock.price, OrNum(stock.lastPrice, 0))),
      change |-> formatCurrency(OrNum(stock.change, 0)),
      pct |-> [change.value EXCEPT !.label = "%"],
      cls |-> change.color]

\* A plausible slip: the guard for no rows left out, so that an empty list
\* makes a table with a header and no row.
createStocksTableNoGuard(stocks, title) ==
  Content("table", title, 0,
          [i \in 1..Len(stocks.items) |-> TableRow(stocks.items[i])])

\* stocks is an array or an absent value (null, undefined).
createStocksTable(stocks, title) ==
  IF ~Truthy(stocks) \/ Len(stocks.items) = 0
  THEN Content("nodata", toLowerCase(title), 0, <<>>)
  ELSE Content("table", title, 0,
               [i \in 1..Len(stocks.items) |-> TableRow(stocks.items[i])])

TickerItem(stock, sign) ==
  LET change == formatPercentageChange(
                  Scalar("number", OrNum(stock.change, OrNum(stock.percentageChange, 0))))
  IN [symbol |-> OrStr(stock.symbol, OrStr(stock.name, "undefined")),
      price |-> formatCurrency(OrNum(stock.price, OrNum(stock.lastPrice, 0))),
      change |-> Text("", 0, ""),
      pct |-> [change.value EXCEPT !.label = "%"],
      cls |-> sign]

\* A plausible slip: the ticker takes five rows of each list, as the tables do.
TickerItemsFive(data, sign) ==
  IF Truthy(data) /\ data.type = "array" /\ Len(data.items) > 0
  THEN [i \in 1..Min(5, Len(data.items)) |-> TickerItem(data.items[i], sign)]
  ELSE <<>>

TickerItems(data, sign) ==
  IF Truthy(data) /\ data.type = "array" /\ Len(data.items) > 0
  THEN [i \in 1..Min(3, Len(data.items)) |-> TickerItem(data.items[i], sign)]
  ELSE <<>>

TickerPlaceholder ==
  Content("text", "CSE Market Data | Live Updates | Real-time Trading", 0, <<>>)

---------------------------------------------------------------------------
(* The update operations, from the point where the awaited getter has      *)
(* returned `data`.  Each yields the page afterwards and how it ended:     *)
(* "failed" (no data: showError), "done", or "threw" (a TypeError left the *)
(* operation, its promise rejects).                                        *)

Result(d, end) == [dom |-> d, end |-> end]

SetContent(els, d, id, content) ==
  IF id \in els THEN [d EXCEPT ![id].content = content] ELSE d

SetClass(els, d, id, cls) ==
  IF id \in els THEN [d EXCEPT ![id].cls = cls] ELSE d

showError(els, d, elementId, message) ==
  SetContent(els, d, elementId, ErrorFragment(message))

Prop(data, name) == IF data.type = "object" THEN data.fields[name] ELSE Undefined

updateASPI(els, d, data) ==
  IF ~Truthy(data)
  THEN Result(showError(els, d, "ASPI", "Unable to fetch ASPI data"), "failed")
  ELSE
    LET aspi == Prop(data, "ASPI")
        chg == Prop(data, "ASPIChange")
        change == formatPercentageChange(chg)
        d1 == IF Truthy(aspi)
              THEN SetContent(els, d, "aspi-index", TextContent(toFixed2(FALSE, aspi.num * 100)))
              ELSE d
        d2 == IF Truthy(chg)
              THEN SetClass(els,
                     SetContent(els, d1, "aspi-change",
                                TextContent([change.value EXCEPT !.label = "%"])),
                     "aspi-change", change.color)
              ELSE d1
    IN IF "aspi-index" \in els /\ Truthy(aspi) /\ aspi.type # "number"
       THEN Result(d, "threw")          \* data.ASPI.toFixed is not a function
       ELSE Result(d2, "done")

updateTable(els, d, data, container, errorId, message, title) ==
  IF ~Truthy(data) THEN Result(showError(els, d, errorId, message), "failed")
  ELSE IF container \notin els THEN Result(d, "done")
  ELSE IF data.type # "array" THEN Result(d, "threw")   \* no slice / no forEach
  ELSE Result(SetContent(els, d, container,
                         createStocksTable(Array(slice(data.items, 5)), title)), "done")

\* A slip of copy and paste: the gainers operation with the losers' ids.
updateTopGainersAsLosers(els, d, data) ==
  updateTable(els, d, data, "top-losers", "losers",
              "Unable to fetch top gainers data", "Gainers")

updateTopGainers(els, d, data) ==
  updateTable(els, d, data, "top-gainers", "gainers",
              "Unable to fetch top gainers data", "Gainers")

updateTopLosers(els, d, data) ==
  updateTable(els, d, data, "top-losers", "losers",
              "Unable to fetch top losers data", "Losers")

updateMostActive(els, d, data) ==
  updateTable(els, d, data, "most-active", "active",
              "Unable to fetch most active data", "Most Active")

updateMarketSummary(els, d, data) ==
  IF ~Truthy(data)
  THEN Result(showError(els, d, "summary", "Unable to fetch market summary"), "failed")
  ELSE
    LET aspi == Prop(data, "ASPI")
        turnover == Prop(data, "turnover")
        marketCap == Prop(data, "marketCap")
        chg == Prop(data, "ASPIChange")
        change == formatPercentageChange(chg)
        d1 == SetContent(els, d, "market-aspi",
                IF Truthy(aspi) THEN TextContent(toFixed2(FALSE, aspi.num * 100))
                ELSE Content("text", "N/A", 0, <<>>))
        d2 == IF Truthy(turnover)
              THEN SetContent(els, d1, "market-turnover",
                              TextContent(formatLargeNumber(turnover)))
              ELSE d1
        d3 == IF Truthy(marketCap)
              THEN SetContent(els, d2, "market-cap",
                              TextContent(formatLargeNumber(marketCap)))
              ELSE d2
        d4 == IF Truthy(chg)
              THEN SetClass(els,
                     SetContent(els, d3, "market-change",
                                TextContent([change.value EXCEPT !.label = "%"])),
                     "market-change", change.color)
              ELSE d3
    IN IF "market-aspi" \in els /\ Truthy(aspi) /\ aspi.type # "number"
       THEN Result(d, "threw")          \* data.ASPI.toFixed is not a function
       ELSE Result(d4, "done")

\* createTickerContent once both getters have returned, and updateTicker's
\* write.  A truthy text payload has a length and a slice but no forEach.
updateTicker(els, d, gainers, losers) ==
  LET throws(x) == Truthy(x) /\ x.type = "string"
      items == TickerItems(gainers, "+") \o TickerItems(losers, "")
  IN IF throws(gainers) \/ throws(losers) THEN Result(d, "threw")
     ELSE Result(SetContent(els, d, "ticker-content",
                            IF items = <<>> THEN TickerPlaceholder
                            ELSE Content("ticker", " | ", 0, items)), "done")

---------------------------------------------------------------------------
(* History records *)

NoEntry == Entry(JNull, -1)

EntryOf(c, key) == IF key \in DOMAIN c THEN c[key] ELSE NoEntry

\* What a lookup found in the map, read off the map itself.
Found(c, key, t) ==
  IF key \notin DOMAIN c THEN "cold"
  ELSE IF t - c[key].timestamp >= cacheTimeout THEN "expired"
  ELSE "fresh"

Event(kind, key, value, at, found, before, requests) ==
  [kind |-> kind, key |-> key, value |-> value, at |-> at, found |-> found,
   before |-> before, requests |-> requests]

NoEvent == Event("none", "", JNull, 0, "cold", NoEntry, 0)

\* An update operation resumed with what its getter(s) returned: the
\* operation, the data (for the ticker: the gainers), the losers (ticker
\* only), how it ended, and how many times it has run.
Rendered(op, data, losers, end, n) ==
  [op |-> op, data |-> data, losers |-> losers, end |-> end, n |-> n]

NotRendered == Rendered("none", JNull, JNull, "pending", 0)

---------------------------------------------------------------------------
(* Initial state: `new CSEApi()` *)

EmptyCache == [k \in {} |-> NoEntry]

NoTimer == [armed |-> FALSE, next |-> 0]

NewApi ==
  /\ now = 0
  /\ cache = EmptyCache
  /\ calls = {}
  /\ ncalls = 0
  /\ last = NoEvent
  /\ lastSet = [k \in EndpointKeys |-> NoEntry]
  /\ storedBy = [k \in EndpointKeys |-> [by |-> 0, over |-> 0]]

NewPage(els) ==
  /\ elements = els
  /\ dom = [e \in els |-> [content |-> Initial, cls |-> ""]]
  /\ passes = <<>>
  /\ timer = NoTimer
  /\ faults = 0

\* A script that holds a CSEApi of its own; no page is involved.
InitApi == NewApi /\ NewPage({}) /\ rendered = NotRendered

\* `new CSEUI()` on one of the pages, before its DOMContentLoaded handler runs.
InitUi == NewApi /\ rendered = NotRendered /\ \E els \in Pages : NewPage(els)

---------------------------------------------------------------------------
(* A getter call: getMarketSummary / getTopGainers / getTopLosers /        *)
(* getMostActive, up to its first suspension.                              *)

Call(key, id, issuedAt, found, pass, op) ==
  [key |-> key, id |-> id, issuedAt |-> issuedAt, found |-> found,
   pass |-> pass, op |-> op]

GetterCall(key) ==
  LET cached == getCachedData(cache, key, now)
      found == Found(cache, key, now)
      before == EntryOf(cache, key)
  IN /\ ncalls < MaxCalls
     /\ ncalls' = ncalls + 1
     /\ IF Truthy(cached)
        THEN /\ cache' = CacheAfterHit(cache, key, now)
             /\ UNCHANGED <<now, calls, lastSet, storedBy>>
        ELSE /\ cache' = CacheAfterMiss(cache, key, now)
             /\ calls' = calls \cup {Call(key, ncalls + 1, now, found, 0, "script")}
             /\ UNCHANGED <<now, lastSet, storedBy>>
     /\ UNCHANGED uiVars
     /\ last' = Event(IF Truthy(cached) THEN "hit" ELSE "request", key, cached,
                      now, found, before, Cardinality(calls') - Cardinality(calls))

---------------------------------------------------------------------------
(* CSEUI.initialize: the six update operations started together.  Each     *)
(* calls its getter(s) at once; an operation whose getter is served from   *)
(* the cache resumes in the microtasks of the same task, the others when   *)
(* their responses arrive.                                                 *)

UiOps == <<"ASPI", "gainers", "losers", "active", "summary", "ticker">>

\* The getters an update operation calls.  updateTicker returns before
\* calling any when the page has no ticker element.
OpKeys(els, op) ==
  CASE op = "ASPI"    -> {"marketSummary"}
    [] op = "gainers" -> {"topGainers"}
    [] op = "losers"  -> {"topLosers"}
    [] op = "active"  -> {"mostActive"}
    [] op = "summary" -> {"marketSummary"}
    [] op = "ticker"  -> IF "ticker-content" \in els
                         THEN {"topGainers", "topLosers"} ELSE {}

\* An update operation resumed with what its getter(s) returned.
RunOp(els, d, op, data, losers) ==
  CASE op = "ASPI"    -> updateASPI(els, d, data)
    [] op = "gainers" -> updateTopGainers(els, d, data)
    [] op = "losers"  -> updateTopLosers(els, d, data)
    [] op = "active"  -> updateMostActive(els, d, data)
    [] op = "summary" -> updateMarketSummary(els, d, data)
    [] op = "ticker"  -> IF "ticker-content" \in els
                         THEN updateTicker(els, d, data, losers)
                         ELSE Result(d, "done")

\* A plausible slip: no try/catch around `await Promise.all`.
initializeNoCatch(ends) ==
  IF \E i \in DOMAIN ends : ends[i] = "threw" THEN "rejected"
  ELSE IF \A i \in DOMAIN ends : ends[i] # "pending" THEN "fulfilled"
  ELSE "pending"

\* The promise initialize() returns, given how its six operations stand:
\* Promise.all rejects at the first rejection and the catch block swallows it.
initialize(ends) ==
  IF \E i \in DOMAIN ends : ends[i] = "threw" THEN "fulfilled"
  ELSE IF \A i \in DOMAIN ends : ends[i] # "pending" THEN "fulfilled"
  ELSE "pending"

\* The operations of a pass that resume at once, in the order they were
\* started: the page and the ends after the first i of them.
RECURSIVE StartOps(_, _, _, _, _)
StartOps(els, c, t, d, i) ==
  IF i = 0 THEN [dom |-> d, ends |-> <<>>]
  ELSE
    LET prev == StartOps(els, c, t, d, i - 1)
        op == UiOps[i]
        keys == OpKeys(els, op)
        hit == \A k \in keys : Truthy(getCachedData(c, k, t))
        data == IF op = "ticker" THEN getCachedData(c, "topGainers", t)
                ELSE getCachedData(c, CHOOSE k \in keys : TRUE, t)
        r == RunOp(els, prev.dom, op, data, getCachedData(c, "topLosers", t))
    IN IF hit THEN [dom |-> r.dom, ends |-> Append(prev.ends, r.end)]
       ELSE [dom |-> prev.dom, ends |-> Append(prev.ends, "pending")]

Pass(ends, gainers, losers) ==
  [promise |-> initialize(ends), ends |-> ends, gainers |-> gainers, losers |-> losers]

\* A plausible slip: requests for one key coalesced, the second caller
\* sharing the promise of the first, so that a pass sends one request a key.
IssuedCoalesced(els, c, t, p) ==
  {Call(k, 0, t, Found(c, k, t), p,
        UiOps[CHOOSE i \in DOMAIN UiOps :
                /\ k \in OpKeys(els, UiOps[i])
                /\ \A j \in DOMAIN UiOps : k \in OpKeys(els, UiOps[j]) => i <= j]) :
     k \in {x \in EndpointKeys :
              /\ \E i \in DOMAIN UiOps : x \in OpKeys(els, UiOps[i])
              /\ ~Truthy(getCachedData(c, x, t))}}

\* The requests pass p sends: one for every getter call of an operation
\* that finds no usable entry, each with a fetch of its own.
Issued(els, c, t, p) ==
  {Call(k, 0, t, Found(c, k, t), p, UiOps[i]) :
     <<i, k>> \in {x \in (DOMAIN UiOps) \X EndpointKeys :
                     /\ x[2] \in OpKeys(els, UiOps[x[1]])
                     /\ ~Truthy(getCachedData(c, x[2], t))}}

InitializePass ==
  LET p == Len(passes) + 1
      started == StartOps(elements, cache, now, dom, Len(UiOps))
      issued == Issued(elements, cache, now, p)
  IN /\ dom' = started.dom
     /\ calls' = calls \cup issued
     /\ passes' = Append(passes, Pass(started.ends,
                                      getCachedData(cache, "topGainers", now),
                                      getCachedData(cache, "topLosers", now)))
     /\ UNCHANGED <<now, cache, ncalls, last, lastSet, storedBy, elements, faults,
                    rendered>>

\* The page's DOMContentLoaded handler: initialize(), startAutoRefresh(60000).
DOMContentLoaded ==
  /\ ~timer.armed
  /\ elements # {}
  /\ InitializePass
  /\ timer' = [armed |-> TRUE, next |-> now + RefreshInterval]

\* The interval timer's callback: another initialize(); the timer stays set.
TimerFire ==
  /\ timer.armed
  /\ now = timer.next
  /\ InitializePass
  /\ timer' = [timer EXCEPT !.next = @ + RefreshInterval]

---------------------------------------------------------------------------
(* The response of a pending getter call arrives: makeApiCall returns, the *)
(* getter runs to its end, and the update operation awaiting it resumes.   *)

OpIndex(op) == CHOOSE i \in DOMAIN UiOps : UiOps[i] = op

Resume(call, data) ==
  IF call.op = "script" THEN UNCHANGED <<dom, passes>>
  ELSE
    LET p == call.pass
        i == OpIndex(call.op)
        waiting == \E c \in calls \ {call} : c.pass = p /\ c.op = call.op
        gainers == IF call.key = "topGainers" THEN data ELSE passes[p].gainers
        losers == IF call.key = "topLosers" THEN data ELSE passes[p].losers
        r == RunOp(elements, dom, call.op,
                   IF call.op = "ticker" THEN gainers ELSE data, losers)
        ends == [passes[p].ends EXCEPT ![i] = r.end]
    IN IF waiting
       THEN /\ dom' = dom
            /\ passes' = [passes EXCEPT ![p].gainers = gainers, ![p].losers = losers]
       ELSE /\ dom' = r.dom
            /\ passes' = [passes EXCEPT ![p] =
                 IF call.op = "ticker" THEN Pass(ends, gainers, losers)
                 ELSE Pass(ends, passes[p].gainers, passes[p].losers)]

Settle(call, outcome) ==
  LET data == makeApiCall(outcome)
  IN /\ call \in calls
     /\ calls' = calls \ {call}
     /\ cache' = StoreFetched(cache, call.key, data, now)
     /\ lastSet' = IF Truthy(data)
                   THEN [lastSet EXCEPT ![call.key] = Entry(data, now)]
                   ELSE lastSet
     /\ storedBy' = IF Truthy(data)
                    THEN [storedBy EXCEPT ![call.key] = [by |-> call.pass, over |-> @.by]]
                    ELSE storedBy
     /\ Resume(call, data)
     /\ UNCHANGED <<now, ncalls, elements, timer, rendered>>

\* The documented payload of each endpoint, and the responses a page run
\* draws from: that payload, a failure, or a payload of another shape.
Documented(key) == IF key = "marketSummary" THEN SummaryA ELSE RowsB

Malformed(key) == IF key = "marketSummary" THEN SummaryText ELSE NotRows

PageFaults(key) == {NetworkError, HttpError, InvalidJson, Ok(Malformed(key))}

SettleScript(call, outcome) ==
  /\ call.op = "script"
  /\ Settle(call, outcome)
  /\ last' = Event("fetched", call.key, makeApiCall(outcome), now, call.found,
                   EntryOf(cache, call.key), 1)
  /\ UNCHANGED faults

SettlePage(call, outcome) ==
  /\ call.op # "script"
  /\ Settle(call, outcome)
  /\ IF outcome \in PageFaults(call.key)
     THEN faults < MaxFaults /\ faults' = faults + 1
     ELSE UNCHANGED faults
  /\ UNCHANGED last

Tick(d) ==
  /\ ~timer.armed
  /\ now + d <= MaxNow
  /\ now' = now + d
  /\ UNCHANGED <<apiVars, uiVars>>

\* Time passing on a loaded page, up to the timer's next deadline.  In the
\* page runs checked here every response arrives within the period of its
\* request, so that passes do not overlap.
Wait(d) ==
  /\ timer.armed
  /\ calls = {}
  /\ now + d <= Min(timer.next, MaxPageNow)
  /\ now' = now + d
  /\ UNCHANGED <<apiVars, uiVars>>

NextApi ==
  \/ \E key \in EndpointKeys : GetterCall(key)
  \/ \E call \in calls, outcome \in ApiOutcomes : SettleScript(call, outcome)
  \/ \E d \in TimeSteps : Tick(d)

SpecApi == InitApi /\ [][NextApi]_vars

NextUi ==
  \/ DOMContentLoaded
  \/ TimerFire
  \/ \E call \in calls :
       \E outcome \in PageFaults(call.key) \cup {Ok(Documented(call.key))} :
         SettlePage(call, outcome)
  \/ \E d \in PageSteps : Wait(d)

SpecUi == InitUi /\ [][NextUi]_vars

---------------------------------------------------------------------------
(* A page whose responses may be late: a request stays in flight as long   *)
(* as the service takes, up to and past the next pass (fetch is given no   *)
(* timeout and no abort signal).  The service answers a request with the   *)
(* market data of the pass that issued it.                                 *)

Served(key, pass) ==
  IF key = "marketSummary"
  THEN IF pass % 2 = 1 THEN SummaryA ELSE SummaryB
  ELSE IF pass % 2 = 1 THEN RowsB ELSE RowsA

\* The full page, and the same page without the ticker.
RefreshPages == {DataIds \cup ErrorIds, (DataIds \cup ErrorIds) \ {"ticker-content"}}

\* Response times after the start of a pass at which the clock is looked at:
\* the longest that lets the entry expire by the next pass, one millisecond
\* more, and a full period.
Latencies ==
  {RefreshInterval - cacheTimeout, RefreshInterval - cacheTimeout + 1, RefreshInterval}

SettleRefresh(call) ==
  /\ call.op # "script"
  /\ Settle(call, Ok(Served(call.key, call.pass)))
  /\ UNCHANGED <<last, faults>>

Elapse(t) ==
  /\ timer.armed
  /\ Cardinality(calls) <= MaxLate
  /\ t > now
  /\ t <= Min(timer.next, MaxPageNow)
  /\ now' = t
  /\ UNCHANGED <<apiVars, uiVars>>

InitRefresh ==
  NewApi /\ rendered = NotRendered /\ \E els \in RefreshPages : NewPage(els)

NextRefresh ==
  \/ DOMContentLoaded
  \/ TimerFire
  \/ \E call \in calls : SettleRefresh(call)
  \/ \E d \in Latencies : Elapse(timer.next - RefreshInterval + d)

SpecRefresh == InitRefresh /\ [][NextRefresh]_vars

---------------------------------------------------------------------------
(* One update operation run again and again, as in successive passes, each *)
(* time resumed with a value its getter may return.                        *)

\* The i-th row of a payload.  Rows differ in their price; some carry a name
\* for a symbol, some neither, some a lastPrice for a price, some a
\* percentageChange for a change.
Stock(i) ==
  Row(IF i % 3 = 1 THEN "JKH" ELSE "", IF i % 3 = 2 THEN "COMB" ELSE "",
      IF i % 2 = 0 THEN 10 * i ELSE 0, IF i % 2 = 1 THEN 10 * i ELSE 0,
      i - 3, IF i = 3 THEN 2 ELSE 0)

RowsOf(n) == Array([i \in 1..n |-> Stock(i)])

\* What a rows getter may return: null, a payload of 0..MaxRows rows, an
\* object that is no sequence, a text.
RowsInputs == {JNull, NotRows, Json("string", 4, <<>>, NoFields)}
                \cup {RowsOf(n) : n \in 0..MaxRows}

\* The amounts a turnover or market capitalisation takes: around each
\* threshold of formatLargeNumber, zero, and negative amounts.
Amounts ==
  {0, 999, 1000, 1500, 999999, 1000000, 999999999, 1000000000,
   -999, -1500, -1000000}

\* The values an index or a percentage change takes.
Levels == {0, 250, -3}

\* What getMarketSummary may return: null, the documented summary with one
\* field varied (another number, text, or missing), an object without fields.
SummaryInputs ==
  {JNull, SummaryA, SummaryText, Object(NoFields)}
    \cup {Object([SummaryA.fields EXCEPT ![f] = v]) :
            f \in {"turnover", "marketCap"},
            v \in {Num(n) : n \in Amounts} \cup {Undefined, Str(5)}}
    \cup {Object([SummaryA.fields EXCEPT ![f] = v]) :
            f \in {"ASPI", "ASPIChange"},
            v \in {Num(n) : n \in Levels} \cup {Undefined, Str(5)}}

Inputs(op) ==
  IF op \in {"ASPI", "summary"} THEN SummaryInputs ELSE RowsInputs

LosersInputs(op) == IF op = "ticker" THEN RowsInputs ELSE {JNull}

Render(data, losers) ==
  LET r == RunOp(elements, dom, rendered.op, data, losers)
  IN /\ rendered.n < MaxRenders
     /\ dom' = r.dom
     /\ rendered' = Rendered(rendered.op, data, losers, r.end, rendered.n + 1)
     /\ UNCHANGED <<now, apiVars, elements, passes, timer, faults>>

\* A page and one of the six update operations of its CSEUI.
InitRender ==
  /\ NewApi
  /\ \E els \in Pages : NewPage(els)
  /\ \E op \in {UiOps[i] : i \in DOMAIN UiOps} :
       rendered = Rendered(op, JNull, JNull, "pending", 0)

NextRender ==
  \E data \in Inputs(rendered.op), losers \in LosersInputs(rendered.op) :
    Render(data, losers)

SpecRender == InitRender /\ [][NextRender]_vars

---------------------------------------------------------------------------
(* A getter as a function of what it finds: whether it issues a request,   *)
(* what it returns, and what lookups see afterwards.  t is the instant of  *)
(* the call, t2 >= t the instant the response arrives.                     *)

UsableEntry(c, key, t) ==
  IF Truthy(getCachedData(c, key, t)) THEN c[key] ELSE NoEntry

View(c, t) == [k \in EndpointKeys |-> UsableEntry(c, k, t)]

GetterOutcome(c, key, outcome, t, t2) ==
  LET cached == getCachedData(c, key, t)
      data == makeApiCall(outcome)
  IN IF Truthy(cached)
     THEN [request |-> FALSE, value |-> cached,
           view |-> View(CacheAfterHit(c, key, t), t2)]
     ELSE [request |-> TRUE, value |-> data,
           view |-> View(StoreFetched(c, key, data, t2), t2)]

WithoutKey(c, key) == [k \in DOMAIN c \ {key} |-> c[k]]

---------------------------------------------------------------------------
(* Claims about the cache and the getters (SpecApi) *)

\* C1: no cache entry ever holds an absent (null) payload, and a fetch that
\* fails stores nothing: the key's entry is what it was before, so a lookup
\* that was a miss before the failed fetch is still a miss after it.
NeverStoresAbsent ==
  /\ \A k \in DOMAIN cache : cache[k].data # JNull /\ Truthy(cache[k].data)
  /\ (last.kind = "fetched" /\ last.value = JNull) =>
       /\ EntryOf(cache, last.key) = last.before
       /\ (last.before = NoEntry \/ last.at - last.before.timestamp >= cacheTimeout) =>
            getCachedData(cache, last.key, now) = JNull

\* C1 witness: a fetch for a key with no entry has failed.
FailedFetchOnMiss ==
  /\ last.kind = "fetched" /\ last.value = JNull
  /\ last.key \notin DOMAIN cache

\* C2: a lookup at an instant t with t - timestamp >= cacheTimeout (exactly
\* cacheTimeout included) returns absent, with no new set in between; so no
\* getter was ever served from an entry that old.
ExpiredLookupAbsent ==
  /\ \A k \in DOMAIN cache :
       now - cache[k].timestamp >= cacheTimeout => getCachedData(cache, k, now) = JNull
  /\ last.kind = "hit" => last.at - last.before.timestamp < cacheTimeout
  /\ (last.kind = "request" /\ last.before # NoEntry) =>
       last.at - last.before.timestamp >= cacheTimeout

\* C2 witness: a getter looked its key up exactly cacheTimeout after the entry
\* was stored, and went to the network.
LookupExactlyAtTimeout ==
  /\ last.kind = "request"
  /\ last.before # NoEntry
  /\ last.at - last.before.timestamp = cacheTimeout

\* C3: a lookup less than cacheTimeout after the latest setCachedData(key,
\* payload) returns exactly that payload, whatever was set under other keys
\* since.
FreshLookupReturnsStored ==
  /\ \A k \in EndpointKeys :
       (lastSet[k] # NoEntry /\ now - lastSet[k].timestamp < cacheTimeout) =>
         getCachedData(cache, k, now) = lastSet[k].data
  /\ last.kind = "hit" => last.value = lastSet[last.key].data

\* C3 witness: a getter was served its key's payload from the cache after
\* another key had been set later than it.
HitAfterOtherKeySet ==
  /\ last.kind = "hit"
  /\ \E k \in EndpointKeys \ {last.key} :
       /\ lastSet[k] # NoEntry
       /\ lastSet[k].timestamp > lastSet[last.key].timestamp

\* C4 as claimed: every non-null fetched result is in the cache, under the
\* getter's key and with the time of the return, when the getter returns it.
FetchedNonNullIsCached ==
  (last.kind = "fetched" /\ last.value # JNull) =>
    /\ last.key \in DOMAIN cache
    /\ cache[last.key] = Entry(last.value, last.at)

\* C4 amended: a getter that misses issues exactly one request, and every
\* truthy fetched result (not null, false, 0 or "") is in the cache, under the
\* getter's key and with the time of the return, when the getter returns it.
FetchedTruthyIsCached ==
  /\ last.kind = "request" => last.requests = 1
  /\ (last.kind = "fetched" /\ Truthy(last.value)) =>
       /\ last.requests = 1
       /\ last.key \in DOMAIN cache
       /\ cache[last.key] = Entry(last.value, last.at)

\* C4 witness: a getter that found its entry expired has fetched and returned
\* a payload, later than the request was issued.
FetchedAndCached ==
  /\ last.kind = "fetched" /\ Truthy(last.value)
  /\ last.found = "expired"
  /\ last.at > last.before.timestamp

\* C5: a getter whose key has an unexpired entry returns that entry's payload,
\* issues no request and leaves the entry (payload and timestamp) as it was.
HitServedFromCache ==
  (last.kind \in {"hit", "request"} /\ last.found = "fresh") =>
    /\ last.kind = "hit"
    /\ last.requests = 0
    /\ last.value = last.before.data
    /\ EntryOf(cache, last.key) = last.before

\* C5 witness: a getter was served from an entry stored earlier.
HitOnOlderEntry ==
  /\ last.kind = "hit"
  /\ last.found = "fresh"
  /\ last.at > last.before.timestamp

\* C9 as claimed: the cache holds exactly one entry for each of the four keys.
ExactlyOneEntryPerKey == DOMAIN cache = EndpointKeys

\* C9 amended: the cache holds entries under the four endpoint keys only, and
\* for each of them none until a fetch for that key has been stored and one
\* (the latest stored) from then on.
EntriesOnlyForFetchedKeys ==
  /\ DOMAIN cache \subseteq EndpointKeys
  /\ \A k \in EndpointKeys :
       /\ k \in DOMAIN cache <=> lastSet[k] # NoEntry
       /\ k \in DOMAIN cache => cache[k] = lastSet[k]

\* C9 witness: some keys have their entry and others have none.
SomeKeysCached ==
  /\ DOMAIN cache # {}
  /\ DOMAIN cache # EndpointKeys
  /\ Cardinality(DOMAIN cache) >= 2

\* C10: a getter that finds its entry expired does what it does on a cache
\* that never held the key, for every fetch outcome and every arrival time:
\* the same request, the same returned value, the same usable entries
\* afterwards.
ExpiredBehavesAsCold ==
  /\ \A k \in DOMAIN cache :
       now - cache[k].timestamp >= cacheTimeout =>
         \A outcome \in ApiOutcomes, d \in {0} \cup TimeSteps :
           GetterOutcome(cache, k, outcome, now, now + d)
             = GetterOutcome(WithoutKey(cache, k), k, outcome, now, now + d)
  /\ (last.kind = "request" /\ last.found = "expired") =>
       last.requests = 1 /\ last.value = JNull
  /\ (last.kind = "fetched" /\ last.found \in {"cold", "expired"}) =>
       EntryOf(cache, last.key)
         = IF Truthy(last.value) THEN Entry(last.value, last.at) ELSE last.before

\* C10 witness: a getter that found its entry expired has fetched, and the
\* fetch failed.
ExpiredThenFailed ==
  /\ last.kind = "fetched"
  /\ last.found = "expired"
  /\ last.value = JNull
  /\ last.key \in DOMAIN cache

\* C11: expiry is lazy.  A step changes the cache map only by storing the
\* truthy result of a fetch under the fetched key, with the time of the
\* step; every other entry, expired or not, keeps its payload and timestamp.
\* A lookup (hit or miss), a failed fetch and the passage of time leave the
\* whole map as it was.
LazyExpiry ==
  [][/\ \A k \in DOMAIN cache :
          /\ k \in DOMAIN cache'
          /\ cache'[k] # cache[k] =>
               /\ last'.kind = "fetched" /\ last'.key = k /\ Truthy(last'.value)
               /\ cache'[k] = Entry(last'.value, now)
     /\ (ncalls' # ncalls \/ now' # now) => cache' = cache
     /\ (last'.kind = "fetched" /\ calls' # calls /\ ~Truthy(last'.value)) =>
          cache' = cache]_vars

\* C11 witness: a getter has looked up a key whose entry was past the
\* timeout, and the entry is still in the map as it was stored.
ExpiredEntryKept ==
  /\ last.kind = "request"
  /\ last.found = "expired"
  /\ last.key \in DOMAIN cache
  /\ cache[last.key] = last.before
  /\ now - cache[last.key].timestamp > cacheTimeout

\* The fetch outcomes that are failures.
Failures == {NetworkError, HttpError, InvalidJson}

\* C12: when the fetch of a getter call ends in a network failure, a
\* non-success status or an unreadable body, the getter returns null and the
\* step leaves the whole cache map, the key's entry and every other key's,
\* exactly as it was.
FailedFetchLeavesCache ==
  [][(\E call \in calls, outcome \in Failures : SettleScript(call, outcome)) =>
       /\ last'.kind = "fetched"
       /\ last'.value = JNull
       /\ cache' = cache]_vars

\* C12 witness: a fetch has failed while the map held an entry for its key and
\* an entry for another key, and both are still there.
FailedFetchBesideEntries ==
  /\ last.kind = "fetched" /\ last.value = JNull
  /\ last.before # NoEntry
  /\ last.key \in DOMAIN cache
  /\ cache[last.key] = last.before
  /\ DOMAIN cache # {last.key}

---------------------------------------------------------------------------
(* Claims about the view controller (SpecUi) *)

LatestPass == passes[Len(passes)]

OpKey(op) ==
  CASE op = "ASPI"    -> "marketSummary"
    [] op = "gainers" -> "topGainers"
    [] op = "losers"  -> "topLosers"
    [] op = "active"  -> "mostActive"
    [] op = "summary" -> "marketSummary"

\* The failure notice of each region's update operation.
FailureNotice(op) ==
  CASE op = "ASPI"    -> ErrorFragment("Unable to fetch ASPI data")
    [] op = "gainers" -> ErrorFragment("Unable to fetch top gainers data")
    [] op = "losers"  -> ErrorFragment("Unable to fetch top losers data")
    [] op = "active"  -> ErrorFragment("Unable to fetch most active data")
    [] op = "summary" -> ErrorFragment("Unable to fetch market summary")

\* The page shows what the operation writes for this data: writing it again
\* changes nothing.
Shows(op, data, losers) == RunOp(elements, dom, op, data, losers).dom = dom

\* C6: in a pass, every region whose own fetch succeeded shows the rendering
\* of its own payload, whatever became of the other regions' requests and in
\* whatever order the responses arrived: with the gainers request failed and
\* the losers and most-active requests answered, the losers and most-active
\* containers hold their tables.
RegionsIsolated ==
  passes # <<>> =>
    /\ \A i \in 1..5 :
         LatestPass.ends[i] = "done" => Shows(UiOps[i], Documented(OpKey(UiOps[i])), JNull)
    /\ LatestPass.ends[6] = "done" =>
         Shows("ticker", LatestPass.gainers, LatestPass.losers)
    /\ (LatestPass.ends[3] = "done" /\ "top-losers" \in elements) =>
         dom["top-losers"].content = createStocksTable(Array(slice(RowsB.items, 5)), "Losers")
    /\ (LatestPass.ends[4] = "done" /\ "most-active" \in elements) =>
         dom["most-active"].content = createStocksTable(Array(slice(RowsB.items, 5)), "Most Active")

\* C6 witness: a pass in which the gainers request failed and the losers and
\* most-active tables were rendered.
GainersFailedOthersRendered ==
  /\ passes # <<>>
  /\ LatestPass.ends[2] = "failed"
  /\ LatestPass.ends[3] = "done" /\ LatestPass.ends[4] = "done"
  /\ {"top-losers", "most-active"} \subseteq elements
  /\ dom["top-losers"].content.kind = "table"
  /\ dom["most-active"].content.kind = "table"

\* C7: the promise of initialize() is never rejected, whatever the responses
\* (a payload that makes an update operation throw included), and the timer
\* stays set: at each deadline its callback starts another pass.
InitializeNeverRejects ==
  /\ \A p \in DOMAIN passes :
       /\ passes[p].promise # "rejected"
       /\ (\E i \in DOMAIN UiOps : passes[p].ends[i] = "threw") =>
            passes[p].promise = "fulfilled"
  /\ passes # <<>> =>
       /\ timer.armed
       /\ timer.next = Len(passes) * RefreshInterval
       /\ now = timer.next => ENABLED TimerFire

\* C7 witness: an update operation of the first pass threw, its initialize()
\* was fulfilled, and the timer has started the next pass.
PassAfterThrow ==
  /\ Len(passes) >= 2
  /\ \E i \in DOMAIN UiOps : passes[1].ends[i] = "threw"
  /\ passes[1].promise = "fulfilled"

\* How the latest completed update of a region ended.
RECURSIVE LatestEnd(_, _)
LatestEnd(i, p) ==
  IF p = 0 THEN "pending"
  ELSE IF passes[p].ends[i] # "pending" THEN passes[p].ends[i]
  ELSE LatestEnd(i, p - 1)

\* C8: the failure notice goes into the placeholder the operation fills when
\* it has data, so that no element shows the failure notice of a region
\* whose latest update succeeded.
NoticeReplacedBySuccess ==
  \A i \in 1..5 :
    LatestEnd(i, Len(passes)) = "done" =>
      \A e \in elements : dom[e].content # FailureNotice(UiOps[i])

---------------------------------------------------------------------------
(* Claims about what the update operations render (SpecRender) *)

\* The rows of a getter's result: none when the result is absent.
RowsIn(data) == IF data.type = "array" THEN data.items ELSE <<>>

IsList(data) == data = JNull \/ data.type = "array"

\* C13: after updateTicker has run with a gainers list g and a losers list l
\* (either may be absent or empty), the ticker element is never blank: it
\* shows the first min(3, |g|) gainers followed by the first min(3, |l|)
\* losers, in the order of the payloads, and the fixed placeholder sentence
\* when that makes no item at all.
TickerShowsFirstThree ==
  (/\ rendered.op = "ticker" /\ rendered.n > 0
   /\ IsList(rendered.data) /\ IsList(rendered.losers)
   /\ "ticker-content" \in elements) =>
    LET g == RowsIn(rendered.data)
        l == RowsIn(rendered.losers)
        shown == dom["ticker-content"].content
    IN /\ rendered.end = "done"
       /\ shown # Initial
       /\ IF Len(g) + Len(l) = 0 THEN shown = TickerPlaceholder
          ELSE /\ shown.kind = "ticker"
               /\ Len(shown.rows) = Min(3, Len(g)) + Min(3, Len(l))
               /\ \A i \in 1..Min(3, Len(g)) : shown.rows[i] = TickerItem(g[i], "+")
               /\ \A i \in 1..Min(3, Len(l)) :
                    shown.rows[Min(3, Len(g)) + i] = TickerItem(l[i], "")

\* C13 witness: the ticker has been written from a gainers list of more than
\* three rows and a losers list of two.
TickerFromLongLists ==
  /\ rendered.op = "ticker" /\ rendered.end = "done"
  /\ IsList(rendered.data) /\ Len(RowsIn(rendered.data)) > 3
  /\ Len(RowsIn(rendered.losers)) = 2
  /\ dom["ticker-content"].content.kind = "ticker"

Abs(n) == IF n < 0 THEN -n ELSE n

\* The suffix for a magnitude m: the largest threshold m meets or exceeds.
SuffixFor(m) ==
  IF m >= 1000000000 THEN "B"
  ELSE IF m >= 1000000 THEN "M"
  ELSE IF m >= 1000 THEN "K"
  ELSE ""

\* C14: formatLargeNumber takes its suffix from the absolute value of its
\* input: a turnover or market capitalisation v, positive or negative, is
\* shown with B when |v| >= 1e9, else M when |v| >= 1e6, else K when
\* |v| >= 1e3, else with no suffix.
SuffixFromAbsoluteValue ==
  (rendered.op = "summary" /\ rendered.end = "done" /\ Truthy(rendered.data)) =>
    \A f \in {"turnover", "marketCap"} :
      LET v == Prop(rendered.data, f)
          id == IF f = "turnover" THEN "market-turnover" ELSE "market-cap"
      IN (v.type = "number" /\ v.num # 0 /\ id \in elements) =>
           dom[id].content.label = SuffixFor(Abs(v.num))

TableOps == {"gainers", "losers", "active"}

\* The container a table operation fills, and the title it passes.
ContainerOf(op) ==
  CASE op = "gainers" -> "top-gainers"
    [] op = "losers"  -> "top-losers"
    [] op = "active"  -> "most-active"

TitleOf(op) ==
  CASE op = "gainers" -> "Gainers"
    [] op = "losers"  -> "Losers"
    [] op = "active"  -> "Most Active"

\* The id an operation passes to showError: 'ASPI', 'gainers', 'losers',
\* 'active', 'summary', which are the names the operations go by here.
ErrorIdOf(op) == op

NoDataNotice(op) == Content("nodata", toLowerCase(TitleOf(op)), 0, <<>>)

\* The container shows the first min(5, n) rows of the payload, in order, or
\* the notice when the payload has no row.
ShowsFirstFive(op, items) ==
  LET shown == dom[ContainerOf(op)].content
  IN IF Len(items) = 0 THEN shown = NoDataNotice(op)
     ELSE /\ shown.kind = "table"
          /\ Len(shown.rows) = Min(5, Len(items))
          /\ \A i \in 1..Min(5, Len(items)) : shown.rows[i] = TableRow(items[i])

\* C15 as claimed: a table operation resumed with a list of n rows, or with
\* nothing, leaves in its container a table of the first min(5, n) rows, and
\* the 'no data available' notice when the list is empty or absent.
TableOrNoticeAlsoWhenAbsent ==
  (/\ rendered.op \in TableOps /\ rendered.n > 0
   /\ IsList(rendered.data)
   /\ ContainerOf(rendered.op) \in elements) =>
    ShowsFirstFive(rendered.op, RowsIn(rendered.data))

\* C15 amended: a table operation resumed with a list of n rows leaves in its
\* container a table of exactly the first min(5, n) rows in order, and the
\* 'no data available' notice when n = 0; no container ever shows a table
\* without rows.  createStocksTable returns the same notice for an absent
\* list, but an operation whose getter returned nothing does not call it: it
\* ends in showError with the 'Unable to fetch' notice.
TableOfFirstFive ==
  /\ (/\ rendered.op \in TableOps /\ rendered.n > 0
      /\ rendered.data.type = "array"
      /\ ContainerOf(rendered.op) \in elements) =>
       /\ rendered.end = "done"
       /\ ShowsFirstFive(rendered.op, rendered.data.items)
  /\ \A e \in elements :
       dom[e].content.kind = "table" => dom[e].content.rows # <<>>
  /\ rendered.op \in TableOps =>
       createStocksTable(JNull, TitleOf(rendered.op)) = NoDataNotice(rendered.op)
  /\ (rendered.op \in TableOps /\ rendered.n > 0 /\ rendered.data = JNull) =>
       /\ rendered.end = "failed"
       /\ ErrorIdOf(rendered.op) \in elements =>
            dom[ErrorIdOf(rendered.op)].content = FailureNotice(rendered.op)

\* C15 witness: in the second run of a table operation a payload of more rows
\* than five has been rendered as a table of five.
LongPayloadRendered ==
  /\ rendered.op \in TableOps /\ rendered.n > 1
  /\ rendered.data.type = "array" /\ Len(rendered.data.items) > 5
  /\ ContainerOf(rendered.op) \in elements
  /\ Len(dom[ContainerOf(rendered.op)].content.rows) = 5

\* The text of a percentage change, as the operations write it.
PercentText(chg) ==
  TextContent([formatPercentageChange(chg).value EXCEPT !.label = "%"])

Fixed2Text(x) == TextContent(toFixed2(FALSE, x.num * 100))

NotAvailable == Content("text", "N/A", 0, <<>>)

\* C16: after updateASPI or updateMarketSummary has run with a present result
\* whose fields are numbers, each scalar placeholder the operation owns
\* shows the text formatted from that result (for a market ASPI of 0, 'N/A'
\* is taken as such), the value 0 included: no placeholder keeps what an
\* earlier run wrote.
ScalarsShowLatestPayload ==
  LET data == rendered.data
      shows(id, content) == id \in elements => dom[id].content = content
  IN (/\ rendered.op \in {"ASPI", "summary"} /\ rendered.end = "done"
      /\ Truthy(data)
      /\ \A f \in {"ASPI", "ASPIChange", "turnover", "marketCap"} :
           Prop(data, f).type = "number") =>
       IF rendered.op = "ASPI"
       THEN /\ shows("aspi-index", Fixed2Text(Prop(data, "ASPI")))
            /\ shows("aspi-change", PercentText(Prop(data, "ASPIChange")))
       ELSE /\ \/ shows("market-aspi", Fixed2Text(Prop(data, "ASPI")))
               \/ Prop(data, "ASPI").num = 0 /\ shows("market-aspi", NotAvailable)
            /\ shows("market-turnover",
                     TextContent(formatLargeNumber(Prop(data, "turnover"))))
            /\ shows("market-cap",
                     TextContent(formatLargeNumber(Prop(data, "marketCap"))))
            /\ shows("market-change", PercentText(Prop(data, "ASPIChange")))

\* C17: a missing or malformed field in a fetched response never raises:
\* whatever non-null payload an update operation is resumed with (fields
\* missing or of another type, an object for a list of rows), it runs to its
\* end without throwing.
MalformedNeverRaises ==
  (rendered.n > 0 /\ rendered.data # JNull) => rendered.end # "threw"

---------------------------------------------------------------------------
(* Claims about passes and late responses (SpecRefresh) *)

\* The requests a step has added.
NewCalls == calls' \ calls

PassStarts == Len(passes') > Len(passes)

RefreshStarts == PassStarts /\ Len(passes) >= 1

\* The getter calls for a key in one pass on a page.
GetterCalls(els, k) ==
  Cardinality({i \in DOMAIN UiOps : k \in OpKeys(els, UiOps[i])})

\* C18 as claimed: every pass the timer starts finds no usable entry for any
\* of the four keys, sends new requests for all four endpoints and renders
\* no region from the cache, however late the earlier responses were.
EveryRefreshRefetchesAll ==
  [][RefreshStarts =>
       /\ \A k \in EndpointKeys :
            /\ Found(cache, k, now) # "fresh"
            /\ \E c \in NewCalls : c.key = k
       /\ \A i \in 1..5 : passes'[Len(passes')].ends[i] = "pending"]_vars

\* C18 amended: a pass the timer starts sends new requests for a key exactly
\* when no response for that key was stored in the cacheTimeout before it,
\* that is, when the latest response for the key arrived no later than
\* RefreshInterval - cacheTimeout after the previous pass started.  With all
\* responses that early the pass requests all four endpoints; a key whose
\* response came later is served from the cache, with no request.
RefreshRefetchesExpired ==
  [][RefreshStarts =>
       \A k \in EndpointKeys :
         LET recent == /\ lastSet[k] # NoEntry
                       /\ lastSet[k].timestamp > now - cacheTimeout
         IN /\ recent => \A c \in NewCalls : c.key # k
            /\ ~recent => Cardinality({c \in NewCalls : c.key = k})
                             = GetterCalls(elements, k)
            /\ (\A j \in EndpointKeys :
                  lastSet[j].timestamp <= now - RefreshInterval
                                            + (RefreshInterval - cacheTimeout)) =>
                 /\ \E c \in NewCalls : c.key = k
                 /\ \A i \in 1..5 : passes'[Len(passes')].ends[i] = "pending"]_vars

\* C18 witness: the second pass has sent a request for a key whose latest
\* response had arrived exactly RefreshInterval - cacheTimeout after the
\* first pass started.
RefetchedAtExactAge ==
  /\ Len(passes) = 2
  /\ \E c \in calls :
       /\ c.pass = 2 /\ c.found = "expired"
       /\ lastSet[c.key].timestamp = RefreshInterval - cacheTimeout
       /\ now - lastSet[c.key].timestamp = cacheTimeout

\* C19: requests for one key may overlap, within a pass and across passes,
\* and the entry of a key is always the payload of the response received
\* last, with the time of its receipt.  Payload and timestamp are written
\* together, the timestamp of a key never decreases, and the response that
\* arrives last is stored over the entry whichever request was sent first.
LastArrivalWins ==
  [][\A k \in EndpointKeys :
       /\ EntryOf(cache', k).timestamp >= EntryOf(cache, k).timestamp
       /\ EntryOf(cache', k) = lastSet'[k]
       /\ \A c \in calls \ calls' :
            c.key = k =>
              /\ cache'[k] = Entry(Served(k, c.pass), now)
              /\ storedBy'[k].by = c.pass]_vars

\* C19 witness: the response to a request of the first pass has arrived
\* after the response to a request of the second pass for the same key, and
\* has replaced its payload in the cache.
EarlierRequestStoredLast ==
  \E k \in DOMAIN cache :
    /\ storedBy[k].by = 1 /\ storedBy[k].over = 2
    /\ cache[k].data = Served(k, 1)
    /\ cache[k].data # Served(k, 2)
    /\ cache[k].timestamp = RefreshInterval

\* C20 as claimed: a pass that finds no usable entry sends seven requests.
SevenRequestsPerPass ==
  [][(PassStarts /\ \A k \in EndpointKeys : Found(cache, k, now) # "fresh") =>
       Cardinality(NewCalls) = 7]_vars

\* C20 amended: the getter calls of a pass all look the cache up before any
\* response of the pass is stored, so the calls for one key all hit or all
\* miss; each call that misses sends a request of its own.  A pass makes
\* seven getter calls on a page with the ticker element and five on a page
\* without it (updateTicker returns before calling a getter), and on a cold
\* or expired cache it sends as many requests.
PassLooksUpBeforeStoring ==
  [][PassStarts =>
       /\ cache' = cache
       /\ \A k \in EndpointKeys :
            Cardinality({c \in NewCalls : c.key = k})
              = IF Found(cache, k, now) = "fresh" THEN 0 ELSE GetterCalls(elements, k)
       /\ (\A k \in EndpointKeys : Found(cache, k, now) # "fresh") =>
            Cardinality(NewCalls) = IF "ticker-content" \in elements THEN 7 ELSE 5]_vars

\* C20 witness: the second pass, on a page with the ticker, has found every
\* entry expired and has seven requests in flight.
SevenRequestsInFlight ==
  /\ Len(passes) = 2
  /\ "ticker-content" \in elements
  /\ Cardinality({c \in calls : c.pass = 2 /\ c.found = "expired"}) = 7

=============================================================================
